---- MODULE Spec2Model ----
(***************************************************************************)
(* Model of src/dshield_connector.py: the DShield -> OpenCTI connector.    *)
(* One process (main) constructs a DShieldConnector and calls run() once.  *)
(* The feed source, the knowledge store (pycti client) and the artifact    *)
(* sink are the environment: every call on them either returns or raises, *)
(* chosen nondeterministically at each call.                               *)
(***************************************************************************)
EXTENDS Integers, Sequences, FiniteSets, TLC

\* Longest feed the feed source serves.
MaxRecords == 2
\* Longest record sequence handed to extract_labels on its own.
MaxExtract == 3

VARIABLES
    pc,                 \* position of the process in main / run
    testMode,           \* args.test, passed as run(test_mode=...)
    feed,               \* what the feed source serves
    store,              \* the knowledge store: labels, observables, attachments
    artifact,           \* dshield_export.json on disk
    fetched,            \* how fetch_dshield_data ended
    data,               \* run(): data
    output,             \* create_opencti_objects(): output
    external_reference, \* create_opencti_objects(): external_reference["id"]
    idx,                \* position of `entry` in data (for entry in data)
    entry_labels,       \* create_opencti_objects(): entry_labels
    lidx,               \* position of `label` in labels (for label in labels)
    observable,         \* create_observable(): observable
    label_id,           \* create_observable(): label_id
    calls,              \* store calls and sleeps of this process, in order
    errlog,             \* error-level log entries of this process, in order
    saves,              \* number of save_to_json calls of this process
    created             \* per tag name, the results of its label.create calls, in order

vars == <<pc, testMode, feed, store, artifact, fetched, data, output,
          external_reference, idx, entry_labels, lidx, observable, label_id,
          calls, errlog, saves, created>>

----------------------------------------------------------------------------
(* Strings and records of the feed *)

\* str.lower() on the strings of the model.
lower(s) ==
    CASE s = "Scanner" -> "scanner"
      [] s = "Malware" -> "malware"
      [] s = "DShield" -> "dshield"
      [] OTHER -> s

BaseLabel == "dshield"

RecA == [ip |-> "1.2.3.4", description |-> "Scanner"]
RecB == [ip |-> "5.6.7.8"]
RecC == [description |-> "scanner"]
RecD == [ip |-> "9.9.9.9", description |-> "DShield"]
Records == {RecA, RecB, RecC, RecD}

\* The records extract_labels is given on its own: with and without ip, and
\* with no description, an empty one, and descriptions that differ in case.
ExtractRecords ==
    {[ip |-> "1.2.3.4"], [description |-> ""], [ip |-> "1.2.3.4", description |-> ""]}
    \cup {[description |-> d] : d \in {"Scanner", "scanner", "Malware"}}
    \cup {[ip |-> "1.2.3.4", description |-> d] : d \in {"Scanner", "scanner", "Malware"}}

SeqsUpTo(S, n) == UNION {[1..k -> S] : k \in 0..n}

Feeds == SeqsUpTo(Records, MaxRecords)

\* The test for the ip left out: every entry is taken to have one.
HasIpAlways(entry) == TRUE

\* 'ip' in entry
HasIp(entry) == "ip" \in DOMAIN entry

\* 'description' in entry
HasDescription(entry) == "description" \in DOMAIN entry

\* The test for an empty fetch left out.
NoDataNever(d) == FALSE

\* `not data` in run()
NoData(d) == d = <<>>

\* The tag names a run can resolve.
LabelNames ==
    {BaseLabel} \cup {lower(r.description) : r \in {x \in Records \cup ExtractRecords :
                                                       HasDescription(x)}}

----------------------------------------------------------------------------
(* The knowledge store *)

None == "None"
NoLabel == 0

Label(i, v) == [id |-> i, value |-> v]

EmptyStore ==
    [labels |-> {}, observables |-> {}, attached |-> {}, references |-> {},
     identities |-> {}]

\* Tags other users of the store have made: one spelt differently from the
\* base label, and one whose name only contains a feed description.
SeedLabels == {Label(1, "DShield"), Label(2, "netscanner")}

\* The tags the store can hold when the program starts: none, the tags of other
\* users, and all that earlier runs of the program can have added to either.
InitialLabels ==
    { {},
      {Label(1, "dshield")},
      {Label(1, "scanner")},
      {Label(1, "dshield"), Label(2, "scanner")},
      {Label(1, "scanner"), Label(2, "dshield")},
      SeedLabels,
      SeedLabels \cup {Label(3, "scanner")} }

StoreWith(labels) == [EmptyStore EXCEPT !.labels = labels]

\* The store's search: every tag equal to the search text ignoring case, and
\* the tags that contain it.
SearchHit(search, value) ==
    \/ lower(value) = lower(search)
    \/ <<lower(search), lower(value)>> \in {<<"scanner", "netscanner">>}

\* helper.api.label.list(search=label_value)
ListLabels(search) == {l \in store.labels : SearchHit(search, l.value)}

FreshLabelId == 1 + Cardinality(store.labels)

\* dshield_export.json: absent, left incomplete by a failed write, or written.
NoFile == [state |-> "absent", labels |-> <<>>, objects |-> <<>>]
PartialFile == [state |-> "partial", labels |-> <<>>, objects |-> <<>>]
WrittenFile(out) == [state |-> "written", labels |-> out.labels, objects |-> out.objects]

NoOutput == [labels |-> <<>>, objects |-> <<>>]

----------------------------------------------------------------------------
(* The log of store calls, and the error log *)

Call(op, arg, ref, lid, res) ==
    [op |-> op, by |-> IF pc = "main" THEN "__init__" ELSE "run", idx |-> idx,
     arg |-> arg, ref |-> ref, lid |-> lid, res |-> res]

\* time.sleep(0.5)
Sleep == Call("time.sleep", "", "", NoLabel, "ok")

\* The handler without its sleep.
NoSleepAfterError == <<>>

\* create_observable, except clause: time.sleep(0.5) after the error is logged
SleepAfterError == <<Sleep>>

\* create_observable: time.sleep(0.5) before add_label
SleepBeforeAdd == <<Sleep>>

LogError(at, label) == [at |-> at, idx |-> idx, label |-> label]

SideEffectOps ==
    {"external_reference.create", "identity.create", "stix_cyber_observable.create",
     "label.create", "stix_cyber_observable.add_label"}

StoreOps == SideEffectOps \cup {"label.list"}

----------------------------------------------------------------------------
(* Pure functions of the connector *)

\* The loop without .lower(): descriptions are added as they are spelt.
RECURSIVE ExtractLoopNoLower(_, _)
ExtractLoopNoLower(d, labels) ==
    IF d = <<>> THEN labels
    ELSE ExtractLoopNoLower(Tail(d),
                            IF HasDescription(Head(d))
                            THEN labels \cup {Head(d).description}
                            ELSE labels)

\* The loop that passes over the entries without ip.
RECURSIVE ExtractLoopOnlyIp(_, _)
ExtractLoopOnlyIp(d, labels) ==
    IF d = <<>> THEN labels
    ELSE ExtractLoopOnlyIp(Tail(d),
                           IF HasDescription(Head(d)) /\ HasIp(Head(d))
                           THEN labels \cup {lower(Head(d).description)}
                           ELSE labels)

\* extract_labels: the loop that fills the set `labels`.
RECURSIVE ExtractLoop(_, _)
ExtractLoop(d, labels) ==
    IF d = <<>> THEN labels
    ELSE ExtractLoop(Tail(d),
                     IF HasDescription(Head(d))
                     THEN labels \cup {lower(Head(d).description)}
                     ELSE labels)

\* list(labels): a list of the set's elements, each once, in an order the
\* set's hashing decides.
ListsOf(S) ==
    {l \in [1..Cardinality(S) -> S] : \A x \in S : \E i \in DOMAIN l : l[i] = x}

\* extract_labels(data): the values it can return.
extract_labels(d) == ListsOf(ExtractLoop(d, {}))

\* entry_labels with the description appended as it is spelt.
EntryLabelsNoLower(entry) ==
    IF HasDescription(entry)
    THEN <<BaseLabel, entry.description>>
    ELSE <<BaseLabel>>

\* entry_labels of create_opencti_objects
EntryLabels(entry) ==
    IF HasDescription(entry)
    THEN <<BaseLabel, lower(entry.description)>>
    ELSE <<BaseLabel>>

\* The test that lets an absent observable through to the tags.
LabelsOnly(obs, labels) == labels # <<>>

\* create_observable: `if observable and labels`
ObservableAndLabels(obs, labels) == obs # None /\ labels # <<>>

\* The test that publishes an entry whatever createObservable returned.
IfIpObsAlways(ip_obs) == TRUE

\* create_opencti_objects: `if ip_obs`
IfIpObs(ip_obs) == ip_obs # None

\* The comparison without .lower() on either side.
MatchingLabelsCaseSensitive(found, label_value) ==
    {l \in found : l.value = label_value}

\* get_label: the tags of the search result that the loop accepts.
MatchingLabels(found, label_value) ==
    {l \in found : lower(l.value) = lower(label_value)}

\* create_observable without its try/except around the work on one tag.
HandlerNoLabelTry(site) ==
    CASE site \in {"label.list", "label.create", "stix_cyber_observable.add_label",
                   "external_reference.create", "stix_cyber_observable.create",
                   "entry['ip']"}
            -> "run"
      [] site = "requests.get" -> "fetch_dshield_data"
      [] site = "json.dump" -> "save_to_json"
      [] OTHER -> "uncaught"

\* run() without its try/except.
HandlerNoRunTry(site) ==
    CASE site \in {"label.list", "label.create", "stix_cyber_observable.add_label"}
            -> "create_observable"
      [] site = "requests.get" -> "fetch_dshield_data"
      [] site = "json.dump" -> "save_to_json"
      [] OTHER -> "uncaught"

\* The except clause that catches an exception raised at a call site.
Handler(site) ==
    CASE site \in {"label.list", "label.create", "stix_cyber_observable.add_label"}
            -> "create_observable"
      [] site \in {"external_reference.create", "stix_cyber_observable.create",
                   "entry['ip']"}
            -> "run"
      [] site = "requests.get" -> "fetch_dshield_data"
      [] site = "json.dump" -> "save_to_json"
      [] OTHER -> "uncaught"

----------------------------------------------------------------------------
(* Control flow shared by the actions *)

\* The loop over the labels left at the end of its first pass.
NextLabelBreak == lidx' = lidx /\ pc' = "append"

\* The reference of the organization passed in place of the feed's.
OrganizationReferenceId == "https://dshield.org/"

\* create_opencti_objects: external_reference["id"], passed to create_observable
ExternalReferenceId == external_reference

\* for label in labels: the next label, or the end of create_observable.
NextLabel ==
    IF lidx < Len(entry_labels)
    THEN lidx' = lidx + 1 /\ pc' = "get_label"
    ELSE lidx' = lidx /\ pc' = "append"

\* for entry in data: the next entry, or the end of create_opencti_objects.
NextEntryPc(i) == IF i > Len(data) THEN "save_to_json" ELSE "for_entry"

\* An exception raised at `site` after the calls `made`: where it is caught.
Raise(site, made) ==
    CASE Handler(site) = "create_observable" ->
            /\ errlog' = Append(errlog, LogError("create_observable", entry_labels[lidx]))
            /\ calls' = calls \o made \o SleepAfterError
            /\ NextLabel
      [] Handler(site) = "run" ->
            /\ errlog' = Append(errlog, LogError("run", ""))
            /\ calls' = calls \o made
            /\ pc' = "done"
            /\ lidx' = lidx
      [] OTHER ->
            /\ errlog' = errlog
            /\ calls' = calls \o made
            /\ pc' = "raised"
            /\ lidx' = lidx

----------------------------------------------------------------------------
(* Actions *)

\* The state when main() starts, with or without --test on the command line.
InitWith(test) ==
    /\ pc = "main"
    /\ testMode = test
    /\ feed \in Feeds
    /\ store \in {StoreWith(labels) : labels \in InitialLabels}
    /\ artifact = NoFile
    /\ fetched = "no"
    /\ data = <<>>
    /\ output = NoOutput
    /\ external_reference = None
    /\ idx = 0
    /\ entry_labels = <<>>
    /\ lidx = 0
    /\ observable = None
    /\ label_id = NoLabel
    /\ calls = <<>>
    /\ errlog = <<>>
    /\ saves = 0
    /\ created = [n \in LabelNames |-> <<>>]

Init == InitWith(FALSE)

InitTest == InitWith(TRUE)

\* DShieldConnector.__init__: the external reference and the organization.
Construct ==
    /\ pc = "main"
    /\ \E res \in {"ok", "external_reference", "identity"} :
        LET ref == Call("external_reference.create", "https://dshield.org/", "",
                        NoLabel, IF res = "external_reference" THEN "raise" ELSE "ok")
            org == Call("identity.create", "DShield", "https://dshield.org/",
                        NoLabel, IF res = "identity" THEN "raise" ELSE "ok")
        IN  /\ calls' = IF res = "external_reference" THEN <<ref>> ELSE <<ref, org>>
            /\ store' = [store EXCEPT
                    !.references = IF res = "external_reference" THEN @
                                   ELSE @ \cup {"https://dshield.org/"},
                    !.identities = IF res = "ok" THEN @ \cup {"DShield"} ELSE @]
            /\ pc' = IF res = "ok" THEN "fetch" ELSE "init_failed"
    /\ UNCHANGED <<testMode, feed, artifact, fetched, data, output,
                   external_reference, idx, entry_labels, lidx, observable,
                   label_id, errlog, saves,
                   created>>

\* run(): fetch_dshield_data() and the test `if not data`.
Fetch ==
    /\ pc = "fetch"
    /\ \E res \in {"ok", "RequestException", "JSONDecodeError", "Exception"} :
        LET d == IF res = "ok" THEN feed ELSE <<>>
        IN  /\ data' = d
            /\ fetched' = IF res # "ok" THEN "error"
                          ELSE IF feed = <<>> THEN "empty" ELSE "ok"
            /\ errlog' = errlog
                    \o (IF res = "ok" THEN <<>> ELSE <<LogError("fetch_dshield_data", res)>>)
                    \o (IF NoData(d) THEN <<LogError("run", "No data received")>> ELSE <<>>)
            /\ pc' = IF NoData(d) THEN "done" ELSE "extract"
    /\ UNCHANGED <<testMode, feed, store, artifact, output,
                   external_reference, idx, entry_labels, lidx, observable,
                   label_id, calls, saves,
                   created>>

\* create_opencti_objects: output["labels"] = extract_labels(data)
Extract ==
    /\ pc = "extract"
    /\ \E l \in extract_labels(data) :
        output' = [labels |-> l, objects |-> <<>>]
    /\ pc' = "external_reference"
    /\ UNCHANGED <<testMode, feed, store, artifact, fetched, data,
                   external_reference, idx, entry_labels, lidx, observable,
                   label_id, calls, errlog, saves,
                   created>>

\* create_opencti_objects: external_reference.create for the feed.
ExternalReference ==
    /\ pc = "external_reference"
    /\ \E ok \in BOOLEAN :
        LET url == "https://isc.sans.edu/api/intelfeed?json"
            made == <<Call("external_reference.create", url, "", NoLabel,
                           IF ok THEN "ok" ELSE "raise")>>
        IN  IF ok
            THEN /\ store' = [store EXCEPT !.references = @ \cup {url}]
                 /\ external_reference' = url
                 /\ calls' = calls \o made
                 /\ idx' = 1
                 /\ pc' = NextEntryPc(1)
                 /\ UNCHANGED <<errlog, lidx>>
            ELSE /\ Raise("external_reference.create", made)
                 /\ UNCHANGED <<store, external_reference, idx>>
    /\ UNCHANGED <<testMode, feed, artifact, fetched, data, output,
                   entry_labels, observable, label_id, saves,
                   created>>

\* for entry in data: the skip of an entry without ip, or its entry_labels.
ForEntry ==
    /\ pc = "for_entry"
    /\ LET entry == data[idx]
       IN  IF ~HasIp(entry)
           THEN /\ idx' = idx + 1
                /\ pc' = NextEntryPc(idx + 1)
                /\ UNCHANGED <<entry_labels, lidx, calls, errlog>>
           ELSE IF "ip" \notin DOMAIN entry
           THEN /\ entry_labels' = EntryLabels(entry)
                /\ Raise("entry['ip']", <<>>)
                /\ UNCHANGED idx
           ELSE /\ entry_labels' = EntryLabels(entry)
                /\ pc' = "create_observable"
                /\ UNCHANGED <<idx, lidx, calls, errlog>>
    /\ UNCHANGED <<testMode, feed, store, artifact, fetched, data,
                   output, external_reference, observable, label_id, saves,
                   created>>

\* create_observable: stix_cyber_observable.create and `if observable and labels`.
CreateObservable ==
    /\ pc = "create_observable"
    /\ \E res \in {"ok", "none", "raise"} :
        LET ip == data[idx].ip
            made == <<Call("stix_cyber_observable.create", ip, ExternalReferenceId,
                           NoLabel, res)>>
        IN  IF res # "raise"
            THEN /\ store' = IF res = "ok"
                             THEN [store EXCEPT !.observables = @ \cup {ip}]
                             ELSE store
                 /\ observable' = IF res = "ok" THEN ip ELSE None
                 /\ calls' = calls \o made
                 /\ IF ObservableAndLabels(observable', entry_labels)
                    THEN lidx' = 1 /\ pc' = "get_label"
                    ELSE lidx' = 0 /\ pc' = "append"
                 /\ UNCHANGED errlog
            ELSE /\ Raise("stix_cyber_observable.create", made)
                 /\ UNCHANGED <<store, observable>>
    /\ label_id' = NoLabel
    /\ UNCHANGED <<testMode, feed, artifact, fetched, data, output,
                   external_reference, idx, entry_labels, saves,
                   created>>

\* create_observable: label_id = self.get_label(label)
GetLabel ==
    /\ pc = "get_label"
    /\ LET label == entry_labels[lidx]
           list(res) == Call("label.list", label, "", NoLabel, res)
           matches == MatchingLabels(ListLabels(label), label)
       IN  \/ /\ Raise("label.list", <<list("raise")>>)
              /\ UNCHANGED <<store, label_id, created>>
           \/ /\ matches # {}
              /\ \E m \in matches : label_id' = m.id
              /\ calls' = calls \o <<list("ok")>>
              /\ pc' = "add_label"
              /\ UNCHANGED <<store, lidx, errlog, created>>
           \/ /\ matches = {}
              /\ store' = [store EXCEPT !.labels = @ \cup {Label(FreshLabelId, label)}]
              /\ label_id' = FreshLabelId
              /\ calls' = calls \o <<list("ok"),
                                      Call("label.create", label, "", FreshLabelId, "ok")>>
              /\ created' = [created EXCEPT ![label] = Append(@, "ok")]
              /\ pc' = "add_label"
              /\ UNCHANGED <<lidx, errlog>>
           \/ /\ matches = {}
              /\ Raise("label.create",
                       <<list("ok"), Call("label.create", label, "", NoLabel, "raise")>>)
              /\ created' = [created EXCEPT ![label] = Append(@, "raise")]
              /\ UNCHANGED <<store, label_id>>
    /\ UNCHANGED <<testMode, feed, artifact, fetched, data, output,
                   external_reference, idx, entry_labels, observable, saves>>

\* create_observable: `if label_id`, the sleep and stix_cyber_observable.add_label.
AddLabel ==
    /\ pc = "add_label"
    /\ LET add(res) == Call("stix_cyber_observable.add_label", observable, "",
                            label_id, res)
       IN  IF label_id = NoLabel
           THEN /\ NextLabel
                /\ UNCHANGED <<store, calls, errlog>>
           ELSE \/ /\ store' = [store EXCEPT !.attached = @ \cup {<<observable, label_id>>}]
                   /\ calls' = calls \o SleepBeforeAdd \o <<add("ok")>>
                   /\ NextLabel
                   /\ UNCHANGED errlog
                \/ /\ Raise("stix_cyber_observable.add_label",
                            SleepBeforeAdd \o <<add("raise")>>)
                   /\ UNCHANGED store
    /\ UNCHANGED <<testMode, feed, artifact, fetched, data, output,
                   external_reference, idx, entry_labels, observable, label_id, saves,
                   created>>

\* create_opencti_objects: `if ip_obs`, the append to output["objects"].
AppendObject ==
    /\ pc = "append"
    /\ output' = IF IfIpObs(observable)
                 THEN [output EXCEPT !.objects =
                          Append(@, [type |-> "ipv4-addr", value |-> data[idx].ip,
                                     labels |-> entry_labels])]
                 ELSE output
    /\ idx' = idx + 1
    /\ pc' = NextEntryPc(idx + 1)
    /\ UNCHANGED <<testMode, feed, store, artifact, fetched, data,
                   external_reference, entry_labels, lidx, observable, label_id,
                   calls, errlog, saves,
                   created>>

\* run(): save_to_json(output), which catches its own exceptions.
SaveToJson ==
    /\ pc = "save_to_json"
    /\ saves' = saves + 1
    /\ \E res \in {"ok", "open", "dump"} :
        /\ artifact' = CASE res = "ok" -> WrittenFile(output)
                          [] res = "open" -> artifact
                          [] OTHER -> PartialFile
        /\ IF res = "ok"
           THEN errlog' = errlog /\ pc' = "done"
           ELSE IF Handler("json.dump") = "save_to_json"
           THEN errlog' = Append(errlog, LogError("save_to_json", res)) /\ pc' = "done"
           ELSE IF Handler("json.dump") = "run"
           THEN errlog' = Append(errlog, LogError("run", "")) /\ pc' = "done"
           ELSE errlog' = errlog /\ pc' = "raised"
    /\ UNCHANGED <<testMode, feed, store, fetched, data, output,
                   external_reference, idx, entry_labels, lidx, observable,
                   label_id, calls,
                   created>>

Next ==
    \/ Construct
    \/ Fetch
    \/ Extract
    \/ ExternalReference
    \/ ForEntry
    \/ CreateObservable
    \/ GetLabel
    \/ AddLabel
    \/ AppendObject
    \/ SaveToJson

\* A start of the program without --test.
Spec == Init /\ [][Next]_vars

\* A start of the program with --test.
SpecTest == InitTest /\ [][Next]_vars

InitExtract ==
    /\ pc = "extract"
    /\ testMode = FALSE
    /\ data \in SeqsUpTo(ExtractRecords, MaxExtract)
    /\ feed = data
    /\ store = EmptyStore
    /\ artifact = NoFile
    /\ fetched = "ok"
    /\ output = NoOutput
    /\ external_reference = None
    /\ idx = 0
    /\ entry_labels = <<>>
    /\ lidx = 0
    /\ observable = None
    /\ label_id = NoLabel
    /\ calls = <<>>
    /\ errlog = <<>>
    /\ saves = 0
    /\ created = [n \in LabelNames |-> <<>>]

\* extract_labels applied to a record sequence, on its own.
SpecExtract == InitExtract /\ [][Extract]_vars

----------------------------------------------------------------------------
(* What the properties read off the state *)

Range(f) == {f[i] : i \in DOMAIN f}

\* The calls of operation op made while entry k of data was being processed.
CallsAt(k, op) == SelectSeq(calls, LAMBDA c : c.idx = k /\ c.op = op)

\* The calls made by run(), as opposed to the constructor.
RunCalls == SelectSeq(calls, LAMBDA c : c.by = "run")

\* The tag names get_label was asked for while entry k was being processed.
Attempted(k) ==
    LET lists == CallsAt(k, "label.list") IN [i \in DOMAIN lists |-> lists[i].arg]

\* createObservable returned an observable for entry k.
CreatedOk(k) ==
    \E i \in DOMAIN calls :
        calls[i].idx = k /\ calls[i].op = "stix_cyber_observable.create" /\ calls[i].res = "ok"

\* createObservable failed for entry k: it raised, or returned nothing.
CreateFailed(k) ==
    \E i \in DOMAIN calls :
        calls[i].idx = k /\ calls[i].op = "stix_cyber_observable.create" /\ calls[i].res # "ok"

LabelOps == {"label.list", "label.create", "stix_cyber_observable.add_label"}

\* The position in output["objects"] that entry k has if it was published.
Rank(k) == Cardinality({j \in 1..k : CreatedOk(j)})

Published(k) ==
    LET r == Rank(k)
    IN  /\ r <= Len(output.objects)
        /\ output.objects[r].value = data[k].ip

\* The process has ended: run() returned, raised, or was never called.
Ended == pc \in {"done", "raised", "init_failed"}

\* A step in which a tag resolution or attachment call raised.
LabelCallRaises ==
    /\ Len(calls') > Len(calls)
    /\ \E i \in (Len(calls) + 1)..Len(calls') :
           calls'[i].op \in LabelOps /\ calls'[i].res = "raise"

\* The calls a step adds to the call log.
NewCalls == SubSeq(calls', Len(calls) + 1, Len(calls'))

NoDuplicateLabels ==
    \A a, b \in store.labels : lower(a.value) = lower(b.value) => a = b

----------------------------------------------------------------------------
(* C1 *)

C1_AllTagsAttempted ==
    \A k \in 1..Len(data) :
        (k < idx /\ CreatedOk(k)) =>
            /\ Attempted(k) = EntryLabels(data[k])
            /\ Published(k)

C1_FailureGoesOn ==
    LabelCallRaises =>
        /\ observable' = observable
        /\ output' = output
        /\ IF lidx < Len(entry_labels)
           THEN pc' = "get_label" /\ lidx' = lidx + 1
           ELSE pc' = "append"

\* C1: a tag whose resolution or attachment raises does not end the work on its
\* observable: the step that meets the failure keeps the observable and goes on
\* to the next tag (or, after the last tag, to the append), and every entry
\* whose observable was created has had all its tags attempted, in order, and
\* is in output["objects"] once the loop has moved past it.
C1_FailureIsolation == [](C1_AllTagsAttempted) /\ [][C1_FailureGoesOn]_vars

\* An entry with two tags whose first tag failed, whose second tag was attached
\* and which is published.
C1_Witness ==
    \E k \in 1..Len(data) :
        /\ k < idx
        /\ CreatedOk(k)
        /\ Len(EntryLabels(data[k])) = 2
        /\ \E c \in Range(calls) :
               c.idx = k /\ c.op \in LabelOps /\ c.res = "raise" /\ c.arg = BaseLabel
        /\ \E c \in Range(CallsAt(k, "stix_cyber_observable.add_label")) : c.res = "ok"
        /\ Published(k)

----------------------------------------------------------------------------
(* C2 *)

\* C2: a failure of createObservable for one entry is logged, leaves no
\* published entry for it, and does not stop the run: when run() has ended
\* after a non-empty fetch, every entry with an ip has been handed to
\* createObservable.
C2_CreateFailureIsLocal ==
    \A k \in 1..Len(data) :
        CreateFailed(k) =>
            /\ Len(output.objects) <= Cardinality({j \in 1..Len(data) : CreatedOk(j)})
            /\ Ended => \E e \in Range(errlog) : e.idx = k
            /\ Ended => \A j \in 1..Len(data) :
                   "ip" \in DOMAIN data[j] => CallsAt(j, "stix_cyber_observable.create") # <<>>

----------------------------------------------------------------------------
(* C3 *)

----------------------------------------------------------------------------
(* C4 *)

\* C4: when the fetch returns no records or fails, run() ends there: it has
\* made no store call, built no output, and save_to_json is never called, so no
\* artifact exists.
C4_NoDataEndsRun ==
    fetched \in {"empty", "error"} =>
        /\ pc = "done"
        /\ RunCalls = <<>>
        /\ output = NoOutput
        /\ saves = 0
        /\ artifact = NoFile

C4_Witness ==
    /\ pc = "done"
    /\ fetched = "empty"
    /\ \E e \in Range(errlog) : e.label = "No data received"

----------------------------------------------------------------------------
(* C5 *)

\* C5: a run whose fetch returned records always reaches save_to_json, and
\* calls it exactly once, whatever store calls fail.
C5_SaveAlwaysAttempted ==
    (fetched = "ok" /\ Ended) => saves = 1

----------------------------------------------------------------------------
(* C6 *)

\* The steps run() can still take: it grows with the entries and tags left.
StepsLeft ==
    CASE pc = "main" -> 8 * Len(feed) + 13
      [] pc = "fetch" -> 8 * Len(feed) + 12
      [] pc = "extract" -> 8 * Len(data) + 11
      [] pc = "external_reference" -> 8 * Len(data) + 10
      [] pc = "for_entry" -> 8 * (Len(data) - idx) + 9
      [] pc = "create_observable" -> 8 * (Len(data) - idx) + 8
      [] pc = "get_label" -> 8 * (Len(data) - idx) + 9 - 2 * lidx
      [] pc = "add_label" -> 8 * (Len(data) - idx) + 8 - 2 * lidx
      [] pc = "append" -> 8 * (Len(data) - idx) + 3
      [] pc = "save_to_json" -> 1
      [] OTHER -> 0

\* C6: no exception leaves run(), whatever the feed source, the store and the
\* artifact sink do; run() returns: until it has, it can take a step, and every
\* step brings its end nearer; and a failing save_to_json only logs, and
\* changes nothing in the store.
C6_RunNeverRaises ==
    /\ [](pc # "raised")
    /\ [](Ended \/ ENABLED Next)
    /\ [][StepsLeft' < StepsLeft]_vars
    /\ [][pc = "save_to_json" => store' = store /\ pc' = "done"]_vars

\* A run in which a store call raised and the artifact write failed too.
C6_Witness ==
    /\ pc = "done"
    /\ saves = 1
    /\ artifact = PartialFile
    /\ \E c \in Range(calls) : c.res = "raise"
    /\ store.attached # {}

----------------------------------------------------------------------------
(* C7 *)

\* C7: with --test, run() makes no side-effecting call on the store.
C7_TestModeNoSideEffects ==
    testMode => \A c \in Range(RunCalls) : c.op \notin SideEffectOps

----------------------------------------------------------------------------
(* C8 *)

\* The description values present in a record sequence.
Descriptions(d) == {d[i].description : i \in {j \in DOMAIN d : "description" \in DOMAIN d[j]}}

NoRepeats(l) == \A i, j \in DOMAIN l : l[i] = l[j] => i = j

\* C8 as stated: extract_labels returns the lower-cased description values that
\* are not empty, each once.
C8_NonEmptyDescriptions ==
    pc = "external_reference" =>
        /\ Range(output.labels) = {lower(v) : v \in Descriptions(data)} \ {""}
        /\ NoRepeats(output.labels)

\* C8, amended: extract_labels returns the lower-cased description values
\* present in the records, the empty string among them when a record's
\* description is empty, each once; records without description add nothing,
\* and the order of the records does not matter.
C8_LowerCasedDescriptions ==
    pc = "external_reference" =>
        /\ Range(output.labels) = {lower(v) : v \in Descriptions(data)}
        /\ NoRepeats(output.labels)

\* Descriptions Scanner, scanner, Malware give {scanner, malware}.
C8_Witness ==
    /\ pc = "external_reference"
    /\ Len(data) = 3
    /\ \A i \in DOMAIN data : HasDescription(data[i])
    /\ [i \in DOMAIN data |-> data[i].description] = <<"Scanner", "scanner", "Malware">>
    /\ Range(output.labels) = {"scanner", "malware"}
    /\ Len(output.labels) = 2

----------------------------------------------------------------------------
(* C9 *)

\* C9: an entry with an ip gets one createObservable call, and the tags
\* attempted for its observable are "dshield" and its lower-cased description,
\* each at most once.
C9_TagsAreASet ==
    \A k \in 1..Len(data) :
        (k < idx /\ "ip" \in DOMAIN data[k]) =>
            /\ Len(CallsAt(k, "stix_cyber_observable.create")) = 1
            /\ CreatedOk(k) =>
                /\ Range(Attempted(k)) =
                       {BaseLabel} \cup {lower(v) : v \in Descriptions(<<data[k]>>)}
                /\ NoRepeats(Attempted(k))

----------------------------------------------------------------------------
(* C10 *)

C10_NothingForEntry ==
    \A k \in 1..Len(data) :
        "ip" \notin DOMAIN data[k] =>
            /\ \A c \in Range(calls) : c.idx # k
            /\ \A e \in Range(errlog) : e.idx # k

C10_NothingPublished ==
    Len(output.objects) <= Cardinality({j \in 1..Len(data) : j <= idx /\ "ip" \in DOMAIN data[j]})

C10_SkipStep ==
    (pc = "for_entry" /\ "ip" \notin DOMAIN data[idx]) =>
        /\ idx' = idx + 1
        /\ pc' = IF idx + 1 > Len(data) THEN "save_to_json" ELSE "for_entry"
        /\ UNCHANGED <<store, artifact, output, calls, errlog, created, saves>>

\* C10: an entry without ip causes no store call, no sleep, no error log entry
\* and no published entry; the step that meets it only moves the loop to the
\* next entry, which is then processed as if the entry had not been there.
C10_SilentSkip ==
    [](C10_NothingForEntry /\ C10_NothingPublished) /\ [][C10_SkipStep]_vars

\* An entry without ip followed by an entry that was created and published.
C10_Witness ==
    \E k, j \in 1..Len(data) :
        /\ "ip" \notin DOMAIN data[k]
        /\ k < j
        /\ j < idx
        /\ CreatedOk(j)
        /\ Len(output.objects) = 1

----------------------------------------------------------------------------
(* C11 *)

\* The entry create_opencti_objects publishes for entry k of data.
PublishedEntry(k) ==
    [type |-> "ipv4-addr", value |-> data[k].ip, labels |-> EntryLabels(data[k])]

C11_OneEntryPerCreated ==
    LET passed == {k \in 1..Len(data) : k < idx /\ CreatedOk(k)}
    IN  /\ Len(output.objects) = Cardinality(passed)
        /\ \A k \in passed :
               output.objects[Cardinality({j \in passed : j <= k})] = PublishedEntry(k)

\* output["objects"] changes only by the append of the current entry, made
\* when its createObservable call has returned an observable.
C11_AppendStep ==
    output'.objects # output.objects =>
        /\ pc = "append"
        /\ observable # None
        /\ CreatedOk(idx)
        /\ output'.objects = Append(output.objects, PublishedEntry(idx))

\* C11: at every point, output["objects"] holds one entry for each entry of
\* data the loop has moved past whose createObservable call returned an
\* observable, in the order of the feed, and nothing else: no entry for an
\* entry whose createObservable returned nothing or raised; the list grows
\* only by the append of such an entry at its end.
C11_PublishedAreCreated == [](C11_OneEntryPerCreated) /\ [][C11_AppendStep]_vars

\* The first entry's createObservable returned nothing, the second entry's an
\* observable: only the second is published.
C11_Witness ==
    /\ pc = "save_to_json"
    /\ Len(data) = 2
    /\ CreateFailed(1)
    /\ CreatedOk(2)
    /\ data[1].ip # data[2].ip
    /\ output.objects = <<PublishedEntry(2)>>

----------------------------------------------------------------------------
(* C12 *)

\* Call i is the label.list call of a resolution that returned a handle: the
\* list returned, and a label.create that followed it did not raise.
ResolvedAt(i) ==
    /\ calls[i].op = "label.list"
    /\ calls[i].res = "ok"
    /\ ~(/\ i < Len(calls)
         /\ calls[i + 1].op = "label.create"
         /\ calls[i + 1].res = "raise")

\* C12: once a tag name has been resolved in a run, no later resolution of that
\* name in the run calls label.list or label.create.
C12_ResolutionsCached ==
    \A i, j \in DOMAIN calls :
        (/\ ResolvedAt(i)
         /\ calls[j].arg = calls[i].arg
         \* later than the resolution itself: its own label.create is call i + 1
         /\ j > (IF i < Len(calls) /\ calls[i + 1].op = "label.create" THEN i + 1 ELSE i))
            => calls[j].op \notin {"label.list", "label.create"}

----------------------------------------------------------------------------
(* C13 *)

\* The tags of the store whose name equals `name` ignoring case.
TagsNamed(labels, name) == {l \in labels : lower(l.value) = lower(name)}

C13_ResolveStep ==
    pc = "get_label" =>
        LET label == entry_labels[lidx]
            held == TagsNamed(store.labels, label)
            made == NewCalls
            listed == made # <<>> /\ made[1].op = "label.list" /\ made[1].res = "ok"
            creates == SelectSeq(made, LAMBDA c : c.op = "label.create")
        IN  /\ made # <<>> /\ made[1].op = "label.list" /\ made[1].arg = label
            /\ (listed /\ held # {}) =>
                   /\ creates = <<>>
                   /\ store' = store
                   /\ pc' = "add_label"
                   /\ label_id' \in {l.id : l \in held}
            /\ (listed /\ held = {}) =>
                   /\ Len(creates) = 1
                   /\ creates[1].arg = label
                   /\ creates[1].res = "ok" =>
                          /\ pc' = "add_label"
                          /\ label_id' \notin {l.id : l \in store.labels}
                          /\ store'.labels = store.labels \cup {Label(label_id', label)}
                   /\ creates[1].res = "raise" => store' = store /\ pc' # "add_label"
            /\ ~listed => store' = store /\ pc' # "add_label"
            /\ pc' = "add_label" =>
                   /\ label_id' # NoLabel
                   /\ \E l \in store'.labels : l.id = label_id'
                   /\ \A l \in store'.labels :
                          l.id = label_id' => lower(l.value) = lower(label)

\* C13: get_label returns the handle of a tag the store already holds under the
\* requested name, names compared ignoring case, and then calls no
\* label.create; when the store holds no such tag, also when its search returns
\* tags of other names, it calls label.create for the name and returns the new
\* tag's handle; the handle it returns is always that of a store tag whose name
\* equals the requested name ignoring case.
C13_ExactMatchOrCreate == [][C13_ResolveStep]_vars

\* A run against a store holding "DShield" and "netscanner": "dshield" was
\* resolved to the tag spelt "DShield" without a creation, and "scanner", for
\* which the search returns only "netscanner", was created.
C13_Witness ==
    /\ pc = "add_label"
    /\ SeedLabels \cup {Label(3, "scanner")} = store.labels
    /\ label_id = 3
    /\ created["scanner"] = <<"ok">>
    /\ created["dshield"] = <<>>
    /\ \E c \in Range(calls) :
           c.op = "stix_cyber_observable.add_label" /\ c.lid = 1 /\ c.res = "ok"

----------------------------------------------------------------------------
(* C14 *)

\* Call i attaches a tag to an observable that a createObservable call of the
\* same entry has returned before.
AttachesCreated(i) ==
    /\ calls[i].arg # None
    /\ \E j \in 1..(i - 1) :
           /\ calls[j].op = "stix_cyber_observable.create"
           /\ calls[j].by = "run"
           /\ calls[j].res = "ok"
           /\ calls[j].idx = calls[i].idx
           /\ calls[j].arg = calls[i].arg

\* Call i attaches the handle that the resolution just before it returned, for
\* one of the tags of the entry: the resolution is the last store call before
\* the sleep, it did not fail, and the handle is that of the tag it named.
AttachesResolved(i) ==
    /\ calls[i].lid # NoLabel
    /\ i >= 3
    /\ calls[i - 1].op = "time.sleep"
    /\ LET r == calls[i - 2]
       IN  /\ r.op \in {"label.list", "label.create"}
           /\ r.res = "ok"
           /\ r.idx = calls[i].idx
           /\ r.arg \in Range(EntryLabels(data[calls[i].idx]))
           /\ r.op = "label.create" => r.lid = calls[i].lid
           /\ \E l \in store.labels :
                  l.id = calls[i].lid /\ lower(l.value) = lower(r.arg)

\* A step that calls add_label is the one after a resolution returned a handle
\* for the current tag of a created observable, and passes these two handles.
C14_AttachStep ==
    \A i \in DOMAIN NewCalls :
        NewCalls[i].op = "stix_cyber_observable.add_label" =>
            /\ pc = "add_label"
            /\ observable # None
            /\ label_id # NoLabel
            /\ NewCalls[i].arg = observable
            /\ NewCalls[i].lid = label_id

C14_AttachedHandles ==
    /\ \A i \in DOMAIN calls :
           calls[i].op = "stix_cyber_observable.add_label" =>
               AttachesCreated(i) /\ AttachesResolved(i)
    /\ \A i \in DOMAIN calls :
           (calls[i].op \in {"label.list", "label.create"} /\ calls[i].res = "raise") =>
               (i + 2 <= Len(calls) => calls[i + 2].op # "stix_cyber_observable.add_label")

\* C14: every add_label call is made with the handle of an observable that an
\* earlier createObservable call of the run returned for the same entry (so
\* none is made for an entry whose observable was not created), and with the
\* handle that a resolution of one of that entry's tags returned; none is made
\* after a resolution that failed.
C14_AttachOnlyCreatedAndResolved ==
    [](C14_AttachedHandles) /\ [][C14_AttachStep]_vars

\* The first entry's createObservable returned nothing and nothing was
\* attached for it; for the second entry the resolution of the first tag
\* failed and the second tag was attached.
C14_Witness ==
    /\ idx = 3
    /\ CreateFailed(1)
    /\ CreatedOk(2)
    /\ \E c \in Range(CallsAt(2, "label.list")) : c.arg = BaseLabel /\ c.res = "raise"
    /\ Len(CallsAt(2, "stix_cyber_observable.add_label")) = 1
    /\ CallsAt(2, "stix_cyber_observable.add_label")[1].res = "ok"

----------------------------------------------------------------------------
(* C15 *)

\* Call i, made for an entry of data, is the createObservable call of that
\* entry if it is the first call made for it, and otherwise follows, among the
\* calls made for the entry, a createObservable call that returned an
\* observable; it is made with that entry's ip where it names an observable.
AfterOwnCreate(i) ==
    LET c == calls[i]
        b == calls[i - 1]
    IN  /\ b.idx < c.idx =>
               c.op = "stix_cyber_observable.create" /\ c.arg = data[c.idx].ip
        /\ b.idx = c.idx =>
               /\ c.op # "stix_cyber_observable.create"
               /\ b.op = "stix_cyber_observable.create" => b.res = "ok"
        /\ c.op = "stix_cyber_observable.add_label" => c.arg = data[c.idx].ip

C15_CallsByEntry ==
    /\ \A i \in 2..Len(calls) : calls[i - 1].idx <= calls[i].idx
    /\ \A i \in 2..Len(calls) : calls[i].idx >= 1 => AfterOwnCreate(i)
    /\ calls # <<>> =>
           \A k \in 1..(calls[Len(calls)].idx - 1) :
               CreatedOk(k) => Attempted(k) = EntryLabels(data[k])

\* The loop over the entries never goes back, every call of a step is made for
\* the entry the loop is at, and the loop leaves an entry only where
\* create_observable has returned or the entry has no ip.
C15_EntryStep ==
    /\ idx' >= idx
    /\ \A i \in DOMAIN NewCalls : NewCalls[i].idx = idx
    /\ idx' > idx => pc \in {"external_reference", "for_entry", "append"}

\* C15: the calls of the run are made entry by entry: the resolutions,
\* sleeps and add_label calls of an entry come after its createObservable call
\* and before the createObservable call of any later entry, calls of two
\* entries never interleave, and when a call for a later entry is made every
\* tag of the earlier entries whose observable was created has been attempted.
C15_EntriesInSequence == [](C15_CallsByEntry) /\ [][C15_EntryStep]_vars

\* Two entries with different ips, both created, each with an attached tag.
C15_Witness ==
    /\ idx = 3
    /\ CreatedOk(1)
    /\ CreatedOk(2)
    /\ data[1].ip # data[2].ip
    /\ Len(EntryLabels(data[1])) = 2
    /\ \A k \in 1..2 :
           \E c \in Range(CallsAt(k, "stix_cyber_observable.add_label")) : c.res = "ok"

----------------------------------------------------------------------------
(* C16 *)

\* C16: every add_label call of a run comes right after a time.sleep, so that
\* between any two add_label calls there is one, and a resolution or
\* attachment call that raises is followed at once by a time.sleep, before any
\* call for the next tag.
C16_PacingHonored ==
    /\ \A i \in DOMAIN calls :
           calls[i].op = "stix_cyber_observable.add_label" =>
               i > 1 /\ calls[i - 1].op = "time.sleep"
    /\ \A i \in DOMAIN calls :
           (calls[i].op \in LabelOps /\ calls[i].res = "raise") =>
               /\ i < Len(calls)
               /\ calls[i + 1].op = "time.sleep"

\* An attachment that raised, followed by the sleep, the resolution of the
\* next tag, a sleep and its attachment.
C16_Witness ==
    \E i \in DOMAIN calls :
        /\ i + 4 <= Len(calls)
        /\ calls[i].op = "stix_cyber_observable.add_label"
        /\ calls[i].res = "raise"
        /\ calls[i + 1].op = "time.sleep"
        /\ calls[i + 2].op = "label.list"
        /\ calls[i + 3].op = "time.sleep"
        /\ calls[i + 4].op = "stix_cyber_observable.add_label"

----------------------------------------------------------------------------
(* C17 *)

\* The external_reference.create calls made by `by`: the constructor or run().
ReferenceCalls(by) ==
    SelectSeq(calls, LAMBDA c : c.op = "external_reference.create" /\ c.by = by)

\* Every createObservable call was given the handle that the
\* external_reference.create call of run() returned.
ReferenceReused ==
    LET made == ReferenceCalls("run")
    IN  \A i \in DOMAIN calls :
            calls[i].op = "stix_cyber_observable.create" =>
                /\ made # <<>>
                /\ made[1].res = "ok"
                /\ calls[i].ref = made[1].arg

\* C17 as stated: the constructor and run() together make exactly one
\* external_reference.create call, whose handle every createObservable call is
\* given.
C17_OneReferenceCall ==
    Ended =>
        /\ Len(ReferenceCalls("__init__")) + Len(ReferenceCalls("run")) = 1
        /\ ReferenceReused

\* C17, amended: run() makes one external_reference.create call, for the feed,
\* when it gets past the fetch and none otherwise, and every createObservable
\* call is given the handle that call returned; the constructor makes one
\* more, for https://dshield.org/, whose handle goes to the organization.
C17_OneReferencePerRun ==
    LET byRun == ReferenceCalls("run")
        byInit == ReferenceCalls("__init__")
    IN  /\ Len(byRun) =
               (IF pc \in {"main", "init_failed", "fetch", "extract", "external_reference"}
                   \/ fetched # "ok"
                THEN 0 ELSE 1)
        /\ \A i \in DOMAIN byRun : byRun[i].arg = "https://isc.sans.edu/api/intelfeed?json"
        /\ ReferenceReused
        /\ Len(byInit) = (IF pc = "main" THEN 0 ELSE 1)
        /\ \A i \in DOMAIN byInit : byInit[i].arg = "https://dshield.org/"
        /\ \A i \in DOMAIN calls :
               calls[i].op = "identity.create" => calls[i].ref = "https://dshield.org/"

\* A run with two createObservable calls, both given the handle of the one
\* reference run() created, after the constructor had created its own.
C17_Witness ==
    /\ pc = "done"
    /\ Len(ReferenceCalls("__init__")) = 1
    /\ Len(ReferenceCalls("run")) = 1
    /\ Len(SelectSeq(calls, LAMBDA c : c.op = "stix_cyber_observable.create")) = 2
    /\ \A c \in Range(calls) :
           c.op = "stix_cyber_observable.create" =>
               c.ref = "https://isc.sans.edu/api/intelfeed?json"

----------------------------------------------------------------------------
(* C18 *)

\* The vocabulary of the fetched records: their lower-cased descriptions.
Vocabulary == {lower(v) : v \in Descriptions(data)}

\* C18: the labels extract_labels returned stay in output["labels"] for the
\* rest of the run, and a written artifact holds them: its labels field is the
\* vocabulary of all fetched records, each name once, those of entries without
\* ip included, also when no object is published.
C18_VocabularyStored ==
    /\ pc \in {"external_reference", "for_entry", "create_observable", "get_label",
               "add_label", "append", "save_to_json"} =>
           Range(output.labels) = Vocabulary /\ NoRepeats(output.labels)
    /\ artifact.state = "written" =>
           /\ Range(artifact.labels) = Vocabulary
           /\ NoRepeats(artifact.labels)
           /\ artifact.labels = output.labels
           /\ artifact.objects = output.objects

\* A written artifact without objects whose labels come from an entry without
\* ip.
C18_Witness ==
    /\ artifact.state = "written"
    /\ artifact.objects = <<>>
    /\ artifact.labels = <<"scanner">>
    /\ \E i \in DOMAIN data : ~HasIp(data[i]) /\ HasDescription(data[i])
    /\ \E i \in DOMAIN data : HasIp(data[i]) /\ ~HasDescription(data[i])

----------------------------------------------------------------------------
(* C19 *)

\* C19: in every state, the labels of each published object begin with
\* "dshield" and are one or two, each of them is "dshield" or a label of
\* output["labels"], and "dshield" is in output["labels"] only when the
\* description of some entry lower-cases to it.
C19_PublishedLabelsInVocabulary ==
    /\ \A o \in Range(output.objects) :
           /\ Len(o.labels) \in {1, 2}
           /\ o.labels[1] = BaseLabel
           /\ \A l \in Range(o.labels) : l = BaseLabel \/ l \in Range(output.labels)
    /\ BaseLabel \in Range(output.labels) =>
           \E i \in DOMAIN data :
               HasDescription(data[i]) /\ lower(data[i].description) = BaseLabel

\* Two published objects: one with its description's label, which the
\* vocabulary holds, and one with the base label alone, which it does not.
C19_Witness ==
    /\ Len(output.objects) = 2
    /\ \E o \in Range(output.objects) : o.labels = <<BaseLabel, "scanner">>
    /\ \E o \in Range(output.objects) : o.labels = <<BaseLabel>>
    /\ output.labels = <<"scanner">>

====
